---- MODULE Spec2Model ----
(***************************************************************************)
(* A model of cgroupspy/interfaces.py: the file-interface descriptors      *)
(* (BaseFileInterface and its subclasses), their access-mode checks and    *)
(* their sanitize_get / sanitize_set conversions.                          *)
(*                                                                         *)
(* Python values are tagged records; text is a sequence of one-character   *)
(* strings, so that parsing and formatting are computed character by       *)
(* character.  A raised exception is the value PyExc(kind), propagated by  *)
(* every operator that receives one.  Python 3 semantics (3.3 - 3.9, where *)
(* collections.Iterable still exists) are modelled.                        *)
(***************************************************************************)
EXTENDS Integers, Sequences, FiniteSets, TLC

VARIABLES
    args,       \* the constructor call under way (class and arguments)
    acc,        \* the descriptor it produced, or the exception it raised
    contents,   \* owner -> filename -> what the owner holds for the file
    last,       \* the most recent __get__ / __set__ call and its outcome
    pc,         \* codec harness: position
    input,      \* codec harness: the value or text handed to the codec
    expect,     \* codec harness: what the input was built from
    enc,        \* codec harness: result of sanitize_set
    dec         \* codec harness: result of sanitize_get

vars == <<args, acc, contents, last, pc, input, expect, enc, dec>>

---------------------------------------------------------------------------
(* Python values *)

PyNone == [t |-> "None"]
PyBool(b) == [t |-> "bool", v |-> b]
PyInt(n) == [t |-> "int", v |-> n]
PyStr(s) == [t |-> "str", v |-> s]
PyBytes(s) == [t |-> "bytes", v |-> s]
PyList(q) == [t |-> "list", v |-> q]
PySet(S) == [t |-> "set", v |-> S]
PyDict(f) == [t |-> "dict", v |-> f]
PyObj(cls, s) == [t |-> "obj", cls |-> cls, v |-> s]
PyExc(kind) == [t |-> "exc", v |-> kind]

IsExc(x) == x.t = "exc"

\* bool(x)
Truthy(x) ==
    CASE x.t = "None" -> FALSE
      [] x.t = "bool" -> x.v
      [] x.t = "int" -> x.v # 0
      [] x.t \in {"str", "bytes", "list"} -> Len(x.v) > 0
      [] x.t = "set" -> x.v # {}
      [] x.t = "dict" -> DOMAIN x.v # {}
      [] OTHER -> TRUE

\* a or b
PyOr(a, b) == IF Truthy(a) THEN a ELSE b

\* isinstance(x, collections.Iterable)
IsIterable(x) == x.t \in {"str", "bytes", "list", "set", "dict"}

---------------------------------------------------------------------------
(* Text *)

Digits == <<"0", "1", "2", "3", "4", "5", "6", "7", "8", "9">>
HexDigits == Digits \o <<"a", "b", "c", "d", "e", "f">>
Whitespace == {" ", "\n", "\t"}

IsDigit(c) == \E i \in 1..Len(Digits) : Digits[i] = c
DigitVal(c) == (CHOOSE i \in 1..Len(Digits) : Digits[i] = c) - 1

RECURSIVE NatToStr(_)
NatToStr(n) ==
    IF n < 10 THEN <<Digits[n + 1]>>
    ELSE NatToStr(n \div 10) \o <<Digits[(n % 10) + 1]>>

\* str(n) of an int
IntToStr(n) == IF n < 0 THEN <<"-">> \o NatToStr(-n) ELSE NatToStr(n)

RECURSIVE NatToHex(_)
NatToHex(n) ==
    IF n < 16 THEN <<HexDigits[n + 1]>>
    ELSE NatToHex(n \div 16) \o <<HexDigits[(n % 16) + 1]>>

\* hex(n)
Hex(n) ==
    IF n < 0 THEN <<"-", "0", "x">> \o NatToHex(-n)
    ELSE <<"0", "x">> \o NatToHex(n)

RECURSIVE LStrip(_)
LStrip(s) ==
    IF s # <<>> /\ Head(s) \in Whitespace THEN LStrip(Tail(s)) ELSE s

RECURSIVE RStrip(_)
RStrip(s) ==
    IF s # <<>> /\ s[Len(s)] \in Whitespace
    THEN RStrip(SubSeq(s, 1, Len(s) - 1))
    ELSE s

\* s.strip()
Strip(s) == RStrip(LStrip(s))

\* s.split(c) for a one-character separator: pieces may be empty
RECURSIVE Split(_, _)
Split(s, c) ==
    IF \A i \in 1..Len(s) : s[i] # c THEN <<s>>
    ELSE LET i == CHOOSE k \in 1..Len(s) :
                      s[k] = c /\ \A j \in 1..(k - 1) : s[j] # c
         IN  <<SubSeq(s, 1, i - 1)>> \o Split(SubSeq(s, i + 1, Len(s)), c)

\* s.split(): pieces separated by runs of whitespace, none empty
RECURSIVE SplitWS(_)
SplitWS(s) ==
    LET u == LStrip(s)
    IN  IF u = <<>> THEN <<>>
        ELSE IF \A i \in 1..Len(u) : u[i] \notin Whitespace THEN <<u>>
        ELSE LET i == CHOOSE k \in 1..Len(u) :
                          u[k] \in Whitespace
                          /\ \A j \in 1..(k - 1) : u[j] \notin Whitespace
             IN  <<SubSeq(u, 1, i - 1)>> \o SplitWS(SubSeq(u, i + 1, Len(u)))

RECURSIVE DigitsToNat(_)
DigitsToNat(s) ==
    IF s = <<>> THEN 0
    ELSE 10 * DigitsToNat(SubSeq(s, 1, Len(s) - 1)) + DigitVal(s[Len(s)])

AllDigits(s) == s # <<>> /\ \A i \in 1..Len(s) : IsDigit(s[i])

\* int(s) of text: surrounding whitespace and one sign are accepted
ParseInt(s) ==
    LET u == Strip(s)
    IN  IF u # <<>> /\ Head(u) \in {"-", "+"}
        THEN IF AllDigits(Tail(u))
             THEN PyInt(IF Head(u) = "-" THEN -DigitsToNat(Tail(u))
                        ELSE DigitsToNat(Tail(u)))
             ELSE PyExc("ValueError")
        ELSE IF AllDigits(u) THEN PyInt(DigitsToNat(u))
             ELSE PyExc("ValueError")

\* int(x)
int(x) ==
    CASE x.t = "int" -> x
      [] x.t = "bool" -> PyInt(IF x.v THEN 1 ELSE 0)
      [] x.t \in {"str", "bytes"} -> ParseInt(x.v)
      [] x.t = "exc" -> x
      [] OTHER -> PyExc("TypeError")

\* str(x), for the values the descriptors format
str(x) ==
    CASE x.t = "int" -> PyStr(IntToStr(x.v))
      [] x.t = "str" -> x
      [] x.t = "bytes" -> PyStr(<<"b", "'">> \o x.v \o <<"'">>)
      [] x.t = "bool" -> PyStr(IF x.v THEN <<"T", "r", "u", "e">>
                               ELSE <<"F", "a", "l", "s", "e">>)
      [] x.t = "None" -> PyStr(<<"N", "o", "n", "e">>)
      [] OTHER -> x

\* sep.join(parts) for a sequence of PyStr
RECURSIVE Join(_, _)
Join(parts, sep) ==
    IF parts = <<>> THEN <<>>
    ELSE IF Len(parts) = 1 THEN parts[1].v
    ELSE parts[1].v \o sep \o Join(Tail(parts), sep)

\* the orders in which a set or a dict may be iterated
RECURSIVE Orders(_)
Orders(S) ==
    IF S = {} THEN {<<>>}
    ELSE UNION { { <<x>> \o q : q \in Orders(S \ {x}) } : x \in S }

RECURSIVE Pow2(_)
Pow2(i) == IF i = 0 THEN 1 ELSE 2 * Pow2(i - 1)

\* (v >> i) & 1, for any int v
Bit(v, i) == (v \div Pow2(i)) % 2

---------------------------------------------------------------------------
(* The conversions of each class *)

\* has the value a .split / .strip that takes text
TextMethod(value) ==
    CASE value.t = "str" -> value
      [] value.t = "bytes" -> PyExc("TypeError")
      [] OTHER -> PyExc("AttributeError")

FlagFile_sanitize_get(value) ==
    LET i == int(value) IN IF IsExc(i) THEN i ELSE PyBool(Truthy(i))

FlagFile_sanitize_set(value) == int(PyBool(Truthy(value)))

\* sanitize_get without the rounding up to a multiple of 8
BitFieldFile_sanitize_get_NoPadding(value) ==
    LET v == int(value)
    IN  IF IsExc(v) THEN v
        ELSE LET l == (Len(Hex(v.v)) - 2) * 4
             IN  PyList([i \in 1..l |-> PyBool(Bit(v.v, i - 1) = 1)])

\* sanitize_get listing the bits most significant first
BitFieldFile_sanitize_get_MsbFirst(value) ==
    LET v == int(value)
    IN  IF IsExc(v) THEN v
        ELSE LET l0 == (Len(Hex(v.v)) - 2) * 4
                 l == l0 + (7 - ((l0 - 1) % 8))
             IN  PyList([i \in 1..l |-> PyBool(Bit(v.v, l - i) = 1)])

BitFieldFile_sanitize_get(value) ==
    LET v == int(value)
    IN  IF IsExc(v) THEN v
        ELSE LET l0 == (Len(Hex(v.v)) - 2) * 4
                 l == l0 + (7 - ((l0 - 1) % 8))
             IN  PyList([i \in 1..l |-> PyBool(Bit(v.v, i - 1) = 1)])

RECURSIVE BitSum(_, _)
BitSum(q, i) ==
    IF i > Len(q) THEN 0
    ELSE (IF Truthy(q[i]) THEN Pow2(i - 1) ELSE 0) + BitSum(q, i + 1)

BitFieldFile_sanitize_set(value) ==
    LET b == IF value.t = "str" THEN PyBytes(value.v) ELSE value
    IN  IF b.t = "bytes" \/ ~IsIterable(b) THEN int(b)
        ELSE CASE b.t = "list" -> PyInt(BitSum(b.v, 1))
               [] b.t = "set" ->
                    IF b.v = {} THEN PyInt(0) ELSE PyExc("TypeError")
               [] b.t = "dict" ->
                    IF DOMAIN b.v = {} THEN PyInt(0) ELSE PyExc("KeyError")

\* sanitize_get without the test for the sentinel
IntegerFile_sanitize_get_NoSentinel(value) == int(value)

IntegerFile_sanitize_get(value) ==
    LET val == int(value)
    IN  IF IsExc(val) THEN val
        ELSE IF val.v = -1 THEN PyNone ELSE val

IntegerFile_sanitize_set(value) ==
    int(IF value = PyNone THEN PyInt(-1) ELSE value)

\* the loop skipping a line that is not two tokens
RECURSIVE DictLoop_SkipBadLines(_, _)
DictLoop_SkipBadLines(lines, res) ==
    IF lines = <<>> THEN PyDict(res)
    ELSE LET toks == SplitWS(Head(lines))
         IN  IF Len(toks) # 2 THEN DictLoop_SkipBadLines(Tail(lines), res)
             ELSE LET val == ParseInt(toks[2])
                  IN  IF IsExc(val) THEN val
                      ELSE DictLoop_SkipBadLines(Tail(lines),
                                                 (toks[1] :> val.v) @@ res)

\* the loop of sanitize_get over the lines, res the mapping built so far
RECURSIVE DictLoop(_, _)
DictLoop(lines, res) ==
    IF lines = <<>> THEN PyDict(res)
    ELSE LET toks == SplitWS(Head(lines))
         IN  IF Len(toks) # 2 THEN PyExc("ValueError")
             ELSE LET val == ParseInt(toks[2])
                  IN  IF IsExc(val) THEN val
                      ELSE DictLoop(Tail(lines), (toks[1] :> val.v) @@ res)

DictFile_sanitize_get(value) ==
    LET s == TextMethod(value)
    IN  IF IsExc(s) THEN s ELSE DictLoop(Split(s.v, "\n"), <<>>)

DictFile_sanitize_set(value) ==
    IF value.t # "dict" THEN {PyExc("ValueError")}
    ELSE { PyStr(Join([i \in DOMAIN q |-> PyStr(q[i])], <<",">>)) :
             q \in Orders(DOMAIN value.v) }

ListFile_sanitize_get(value) ==
    LET s == TextMethod(value)
    IN  IF IsExc(s) THEN s
        ELSE LET toks == SplitWS(s.v)
             IN  PyList([i \in DOMAIN toks |-> PyStr(toks[i])])

\* [int(x) for x in q], the first failure raised
IntList(q) ==
    LET r == [i \in DOMAIN q |-> int(q[i])]
    IN  IF \E i \in DOMAIN r : IsExc(r[i])
        THEN r[CHOOSE i \in DOMAIN r :
                   IsExc(r[i]) /\ \A j \in 1..(i - 1) : ~IsExc(r[j])]
        ELSE PyList(r)

IntegerListFile_sanitize_get(value) ==
    LET value_list == ListFile_sanitize_get(value)
    IN  IF IsExc(value_list) THEN value_list ELSE IntList(value_list.v)

IntegerListFile_sanitize_set(value) ==
    int(IF value = PyNone THEN PyInt(-1) ELSE value)

\* ElGroup without the test for the empty group
ElGroup_NoEmptyTest(el_group) ==
    IF \E i \in 1..Len(el_group) : el_group[i] = "-"
    THEN LET parts == Split(el_group, "-")
         IN  IF Len(parts) # 2 THEN PyExc("ValueError")
             ELSE LET start == ParseInt(parts[1])
                      end == ParseInt(parts[2])
                  IN  IF IsExc(start) THEN start
                      ELSE IF IsExc(end) THEN end
                      ELSE PySet(start.v .. end.v)
    ELSE LET el == ParseInt(el_group)
         IN  IF IsExc(el) THEN el ELSE PySet({el.v})

\* ElGroup with range(int(start), int(end)): the end left out
ElGroup_EndExclusive(el_group) ==
    IF \E i \in 1..Len(el_group) : el_group[i] = "-"
    THEN LET parts == Split(el_group, "-")
         IN  IF Len(parts) # 2 THEN PyExc("ValueError")
             ELSE LET start == ParseInt(parts[1])
                      end == ParseInt(parts[2])
                  IN  IF IsExc(start) THEN start
                      ELSE IF IsExc(end) THEN end
                      ELSE PySet(start.v .. (end.v - 1))
    ELSE IF el_group # <<>>
         THEN LET el == ParseInt(el_group)
              IN  IF IsExc(el) THEN el ELSE PySet({el.v})
         ELSE PySet({})

\* the elements one el_group contributes, or the exception it raises
ElGroup(el_group) ==
    IF \E i \in 1..Len(el_group) : el_group[i] = "-"
    THEN LET parts == Split(el_group, "-")
         IN  IF Len(parts) # 2 THEN PyExc("ValueError")
             ELSE LET start == ParseInt(parts[1])
                      end == ParseInt(parts[2])
                  IN  IF IsExc(start) THEN start
                      ELSE IF IsExc(end) THEN end
                      ELSE PySet(start.v .. end.v)
    ELSE IF el_group # <<>>
         THEN LET el == ParseInt(el_group)
              IN  IF IsExc(el) THEN el ELSE PySet({el.v})
         ELSE PySet({})

RECURSIVE CommaDashLoop(_, _)
CommaDashLoop(groups, elems) ==
    IF groups = <<>> THEN PySet(elems)
    ELSE LET g == ElGroup(Head(groups))
         IN  IF IsExc(g) THEN g
             ELSE CommaDashLoop(Tail(groups), elems \cup g.v)

CommaDashSetFile_sanitize_get(value) ==
    LET s == TextMethod(value)
    IN  IF IsExc(s) THEN s
        ELSE CommaDashLoop(Split(Strip(s.v), ","), {})

\* len(value)
HasLen(value) == value.t \in {"str", "bytes", "list", "set", "dict"}
PyLen(value) ==
    CASE value.t \in {"str", "bytes", "list"} -> Len(value.v)
      [] value.t = "set" -> Cardinality(value.v)
      [] value.t = "dict" -> Cardinality(DOMAIN value.v)

CommaDashSetFile_sanitize_set(value) ==
    IF ~HasLen(value) THEN {PyExc("TypeError")}
    ELSE IF PyLen(value) = 0 THEN {PyStr(<<" ">>)}
    ELSE LET b == IF value.t = "str" THEN PyBytes(value.v) ELSE value
         IN  CASE b.t = "bytes" -> {str(b)}
               [] b.t = "list" ->
                    {PyStr(Join([i \in DOMAIN b.v |-> str(b.v[i])], <<",">>))}
               [] b.t = "set" ->
                    { PyStr(Join([i \in DOMAIN q |-> str(PyInt(q[i]))], <<",">>)) :
                        q \in Orders(b.v) }
               [] b.t = "dict" ->
                    { PyStr(Join([i \in DOMAIN q |-> PyStr(q[i])], <<",">>)) :
                        q \in Orders(DOMAIN b.v) }

MultiLineIntegerFile_sanitize_get(value) ==
    LET s == TextMethod(value)
    IN  IF IsExc(s) THEN s
        ELSE LET lines == SelectSeq(Split(Strip(s.v), "\n"),
                                    LAMBDA val : val # <<>>)
             IN  IntList([i \in DOMAIN lines |-> PyStr(lines[i])])

MultiLineIntegerFile_sanitize_set(value) ==
    int(IF value = PyNone THEN PyInt(-1) ELSE value)

SplitValueFile_sanitize_get(self, value) ==
    LET s == TextMethod(value)
    IN  IF IsExc(s) THEN s
        ELSE LET parts == Split(Strip(s.v), self.splitchar)
             IN  IF self.position + 1 > Len(parts) THEN PyExc("IndexError")
                 ELSE LET res == PyStr(parts[self.position + 1])
                      IN  IF self.restype = "int" THEN int(res) ELSE res

\* contenttype.from_string(value): one instance from one line of text
from_string(contenttype, value) ==
    IF value.t = "str" THEN PyObj(contenttype, value.v)
    ELSE PyExc("Exception")

TypedFile_sanitize_set(self, value) ==
    IF value.t = "obj" /\ value.cls = self.contenttype THEN value
    ELSE from_string(self.contenttype, value)

TypedFile_sanitize_get(self, value) ==
    LET s == TextMethod(value)
    IN  IF IsExc(s) THEN s
        ELSE LET lines == SelectSeq(Split(s.v, "\n"), LAMBDA val : val # <<>>)
                 res == [i \in DOMAIN lines |->
                             from_string(self.contenttype, PyStr(lines[i]))]
             IN  IF ~self.many
                 THEN IF res # <<>> THEN res[1] ELSE PyNone
                 ELSE PyList(res)

DictAndFlagFile_sanitize_set(value) == int(PyBool(Truthy(value)))

DictAndFlagFile_sanitize_get(value) ==
    LET s == TextMethod(value)
    IN  IF IsExc(s) THEN s ELSE DictLoop(Split(s.v, "\n"), <<>>)

\* self.sanitize_get(value), by the class of self
sanitize_get(self, value) ==
    CASE self.cls = "FlagFile" -> FlagFile_sanitize_get(value)
      [] self.cls = "BitFieldFile" -> BitFieldFile_sanitize_get(value)
      [] self.cls = "IntegerFile" -> IntegerFile_sanitize_get(value)
      [] self.cls = "DictFile" -> DictFile_sanitize_get(value)
      [] self.cls = "ListFile" -> ListFile_sanitize_get(value)
      [] self.cls = "IntegerListFile" -> IntegerListFile_sanitize_get(value)
      [] self.cls = "CommaDashSetFile" -> CommaDashSetFile_sanitize_get(value)
      [] self.cls = "MultiLineIntegerFile" ->
             MultiLineIntegerFile_sanitize_get(value)
      [] self.cls = "SplitValueFile" -> SplitValueFile_sanitize_get(self, value)
      [] self.cls = "TypedFile" -> TypedFile_sanitize_get(self, value)
      [] self.cls = "DictAndFlagFile" -> DictAndFlagFile_sanitize_get(value)
      [] OTHER -> value

\* self.sanitize_set(value), by the class of self: the set of results it may
\* give (one, unless the value is a set or a dict iterated in hash order)
sanitize_set(self, value) ==
    CASE self.cls = "FlagFile" -> {FlagFile_sanitize_set(value)}
      [] self.cls = "BitFieldFile" -> {BitFieldFile_sanitize_set(value)}
      [] self.cls = "IntegerFile" -> {IntegerFile_sanitize_set(value)}
      [] self.cls = "DictFile" -> DictFile_sanitize_set(value)
      [] self.cls = "IntegerListFile" -> {IntegerListFile_sanitize_set(value)}
      [] self.cls = "CommaDashSetFile" -> CommaDashSetFile_sanitize_set(value)
      [] self.cls = "MultiLineIntegerFile" ->
             {MultiLineIntegerFile_sanitize_set(value)}
      [] self.cls = "TypedFile" -> {TypedFile_sanitize_set(self, value)}
      [] self.cls = "DictAndFlagFile" -> {DictAndFlagFile_sanitize_set(value)}
      [] OTHER -> {value}

---------------------------------------------------------------------------
(* Construction *)

Classes ==
    {"BaseFileInterface", "StrFile", "FlagFile", "BitFieldFile", "IntegerFile",
     "DictFile", "ListFile", "IntegerListFile", "CommaDashSetFile",
     "MultiLineIntegerFile", "SplitValueFile", "TypedFile", "DictAndFlagFile"}

\* the class attribute readonly: False on the base, True where overridden
ClassReadonly(cls) ==
    PyBool(cls \in {"ListFile", "IntegerListFile", "SplitValueFile"})

\* the class attribute writeonly: no class overrides it
ClassWriteonly(cls) == PyBool(FALSE)

\* issubclass(contenttype, BaseContentType)
IsContentType(contenttype) == contenttype = "DeviceAccess"

\* BaseFileInterface.__init__(self, filename, readonly, writeonly), self being
\* the record `fields` of what the subclass constructor sets
BaseFileInterface__init__(fields, filename, readonly, writeonly) ==
    IF Truthy(readonly) /\ Truthy(writeonly) THEN PyExc("RuntimeError")
    ELSE [fields EXCEPT
            !.filename = IF filename.t = "str" THEN PyBytes(filename.v)
                         ELSE filename,
            !.readonly = PyOr(readonly, ClassReadonly(fields.cls)),
            !.writeonly = PyOr(writeonly, ClassWriteonly(fields.cls))]

\* an instance before any __init__ ran
Blank(cls) ==
    [t |-> "descriptor", cls |-> cls, filename |-> PyNone,
     readonly |-> ClassReadonly(cls), writeonly |-> ClassWriteonly(cls),
     position |-> 0, restype |-> "None", splitchar |-> " ",
     contenttype |-> "None", many |-> FALSE]

SplitValueFile__init__(a) ==
    LET self == BaseFileInterface__init__(Blank(a.cls), a.filename,
                                          PyNone, PyNone)
    IN  IF IsExc(self) THEN self
        ELSE [self EXCEPT !.position = a.position, !.splitchar = a.splitchar,
                          !.restype = a.restype]

TypedFile__init__(a) ==
    IF ~IsContentType(a.contenttype) THEN PyExc("RuntimeError")
    ELSE BaseFileInterface__init__(
             [Blank(a.cls) EXCEPT !.contenttype = a.contenttype,
                                  !.many = a.many],
             a.filename, a.readonly, a.writeonly)

\* cls(filename, ...): the descriptor, or the exception raised
__init__(a) ==
    CASE a.cls = "SplitValueFile" -> SplitValueFile__init__(a)
      [] a.cls = "TypedFile" -> TypedFile__init__(a)
      [] OTHER -> BaseFileInterface__init__(Blank(a.cls), a.filename,
                                            a.readonly, a.writeonly)

---------------------------------------------------------------------------
(* The owner: the node whose get_property / set_property do the file I/O *)

Owners == {"n1", "n2"}
Filenames == {PyBytes(<<"a">>), PyBytes(<<"b">>)}

get_property(cont, instance, filename) == cont[instance][filename]

set_property(cont, instance, filename, value) ==
    [cont EXCEPT ![instance][filename] = value]

Call(fn, instance, filename, value) ==
    [fn |-> fn, instance |-> instance, filename |-> filename, value |-> value]

\* what the owners hold once the calls of one access were made
RECURSIVE Perform(_, _)
Perform(cont, calls) ==
    IF calls = <<>> THEN cont
    ELSE LET c == Head(calls)
         IN  Perform(IF c.fn = "set_property"
                     THEN set_property(cont, c.instance, c.filename, c.value)
                     ELSE cont,
                     Tail(calls))

---------------------------------------------------------------------------
(* Access through the descriptor *)

\* __get__ keeping the text of its first read instead of reading again
__get__Cached(self, instance, cont) ==
    IF Truthy(self.writeonly)
    THEN [result |-> PyExc("RuntimeError"), calls |-> <<>>]
    ELSE LET value == get_property(
                          [o \in DOMAIN cont |->
                             [f \in DOMAIN cont[o] |->
                                PyStr(<<"1">>)]],
                          instance, self.filename)
         IN  [result |-> sanitize_get(self, value),
              calls |-> <<Call("get_property", instance, self.filename, PyNone)>>]

\* BaseFileInterface.__get__(self, instance, owner): what it returns or
\* raises, and the calls it made on the instance
__get__(self, instance, cont) ==
    IF Truthy(self.writeonly)
    THEN [result |-> PyExc("RuntimeError"), calls |-> <<>>]
    ELSE LET value == get_property(cont, instance, self.filename)
         IN  [result |-> sanitize_get(self, value),
              calls |-> <<Call("get_property", instance, self.filename, PyNone)>>]

\* __set__ encoding the value before it checks the access mode
__set__SanitizeFirst(self, instance, value) ==
    { IF IsExc(e) THEN [result |-> e, calls |-> <<>>]
      ELSE IF Truthy(self.readonly)
      THEN [result |-> PyExc("RuntimeError"), calls |-> <<>>]
      ELSE IF e.t # "None"
      THEN [result |-> PyNone,
            calls |-> <<Call("set_property", instance, self.filename, e)>>]
      ELSE [result |-> PyNone, calls |-> <<>>] :
      e \in sanitize_set(self, value) }

\* __set__ testing the encoded value for truth ("if value:") instead of
\* "is not None"
__set__IfTruthy(self, instance, value) ==
    IF Truthy(self.readonly)
    THEN {[result |-> PyExc("RuntimeError"), calls |-> <<>>]}
    ELSE { IF IsExc(e) THEN [result |-> e, calls |-> <<>>]
           ELSE IF Truthy(e)
           THEN [result |-> PyNone,
                 calls |-> <<Call("set_property", instance, self.filename, e)>>]
           ELSE [result |-> PyNone, calls |-> <<>>] :
           e \in sanitize_set(self, value) }

\* BaseFileInterface.__set__(self, instance, value): the outcomes it may have
__set__(self, instance, value) ==
    IF Truthy(self.readonly)
    THEN {[result |-> PyExc("RuntimeError"), calls |-> <<>>]}
    ELSE { IF IsExc(e) THEN [result |-> e, calls |-> <<>>]
           ELSE IF e.t # "None"
           THEN [result |-> PyNone,
                 calls |-> <<Call("set_property", instance, self.filename, e)>>]
           ELSE [result |-> PyNone, calls |-> <<>>] :
           e \in sanitize_set(self, value) }

---------------------------------------------------------------------------
(* The descriptor state machine *)

FlagArgs == {PyNone, PyBool(FALSE), PyBool(TRUE)}
FilenameArgs == {PyStr(<<"a">>), PyBytes(<<"b">>)}

ConstructorCalls ==
    { [cls |-> c, filename |-> f, readonly |-> r, writeonly |-> w,
       position |-> 0, restype |-> "None", splitchar |-> " ",
       contenttype |-> "None", many |-> FALSE] :
         c \in Classes \ {"SplitValueFile", "TypedFile"},
         f \in FilenameArgs, r \in FlagArgs, w \in FlagArgs }
    \cup
    { [cls |-> "SplitValueFile", filename |-> f, readonly |-> PyNone,
       writeonly |-> PyNone, position |-> p, restype |-> rt, splitchar |-> " ",
       contenttype |-> "None", many |-> FALSE] :
         f \in FilenameArgs, p \in {0, 1}, rt \in {"None", "int"} }
    \cup
    { [cls |-> "TypedFile", filename |-> f, readonly |-> r, writeonly |-> w,
       position |-> 0, restype |-> "None", splitchar |-> " ",
       contenttype |-> ct, many |-> m] :
         f \in FilenameArgs, r \in FlagArgs, w \in FlagArgs,
         ct \in {"DeviceAccess", "object"}, m \in BOOLEAN }

WriteValues ==
    { PyNone, PyBool(FALSE), PyInt(3), PyStr(<<"5">>),
      PyDict(<<"k">> :> 1), PySet({}), PyObj("DeviceAccess", <<"c">>) }

Unbound == [t |-> "unbound"]

InitialContents ==
    [o \in Owners |->
       [f \in Filenames |->
          IF o = "n1"
          THEN (IF f.v = <<"a">> THEN PyStr(<<"1">>)
                ELSE PyStr(<<"x", " ", "1">>))
          ELSE (IF f.v = <<"a">> THEN PyStr(<<"0", "-", "2">>)
                ELSE PyStr(<<"x", " ", "1", "\n", "y", " ", "2">>))]]

NoAccess ==
    [op |-> "none", instance |-> "", value |-> PyNone, result |-> PyNone,
     calls |-> <<>>]

HarnessIdle ==
    /\ pc = "idle"
    /\ input = PyNone
    /\ expect = PyNone
    /\ enc = PyNone
    /\ dec = PyNone

MachineIdle ==
    /\ args = PyNone
    /\ acc = Unbound
    /\ contents = InitialContents
    /\ last = NoAccess

Init ==
    /\ args \in ConstructorCalls
    /\ acc = Unbound
    /\ contents = InitialContents
    /\ last = NoAccess
    /\ HarnessIdle

Construct ==
    /\ acc = Unbound
    /\ acc' = __init__(args)
    /\ UNCHANGED <<args, contents, last, pc, input, expect, enc, dec>>

Read ==
    /\ acc.t = "descriptor"
    /\ \E instance \in Owners :
         LET out == __get__(acc, instance, contents)
         IN  /\ last' = [op |-> "read", instance |-> instance, value |-> PyNone,
                         result |-> out.result, calls |-> out.calls]
             /\ contents' = Perform(contents, out.calls)
    /\ UNCHANGED <<args, acc, pc, input, expect, enc, dec>>

Write ==
    /\ acc.t = "descriptor"
    /\ \E instance \in Owners, value \in WriteValues :
         \E out \in __set__(acc, instance, value) :
           /\ last' = [op |-> "write", instance |-> instance, value |-> value,
                       result |-> out.result, calls |-> out.calls]
           /\ contents' = Perform(contents, out.calls)
    /\ UNCHANGED <<args, acc, pc, input, expect, enc, dec>>

Next == Construct \/ Read \/ Write

Spec == Init /\ [][Next]_vars

---------------------------------------------------------------------------
(* Properties of the descriptor state machine *)

\* C1: a read through a writeonly descriptor, and a write of any value
\* through a readonly descriptor, raises the access error (RuntimeError) and
\* makes no call on the owner: neither get_property nor set_property.
C1_AccessCheckedFirst ==
    /\ (last.op = "read" /\ Truthy(acc.writeonly)) =>
           (last.result = PyExc("RuntimeError") /\ last.calls = <<>>)
    /\ (last.op = "write" /\ Truthy(acc.readonly)) =>
           (last.result = PyExc("RuntimeError") /\ last.calls = <<>>)

\* a value its class cannot encode was written through a readonly
\* descriptor: the access error was raised, not the encoding's, and no I/O
C1_Witness ==
    /\ last.op = "write"
    /\ acc.t = "descriptor"
    /\ Truthy(acc.readonly)
    /\ \E e \in sanitize_set(acc, last.value) : IsExc(e)
    /\ last.result = PyExc("RuntimeError")
    /\ last.calls = <<>>
    /\ contents = InitialContents

\* C2: a descriptor that was constructed is never both readonly and
\* writeonly, whatever its class and its readonly / writeonly arguments, and
\* a construction that asks for both raises the configuration error.
C2_NeverBothModes ==
    /\ acc.t = "descriptor" =>
           ~(Truthy(acc.readonly) /\ Truthy(acc.writeonly))
    /\ (acc # Unbound /\ Truthy(args.readonly) /\ Truthy(args.writeonly)) =>
           acc = PyExc("RuntimeError")

\* C3: a write through a descriptor that is not readonly makes no
\* set_property call and succeeds when sanitize_set gives None, and makes
\* exactly one set_property call, with the bound filename and the encoded
\* value, when it gives anything else (0 from FlagFile included).
C3_WriteIffEncoded ==
    (last.op = "write" /\ ~Truthy(acc.readonly)) =>
        \E e \in sanitize_set(acc, last.value) :
            CASE IsExc(e) -> TRUE
              [] e.t = "None" ->
                     last.calls = <<>> /\ last.result = PyNone
              [] OTHER ->
                     last.calls =
                         <<Call("set_property", last.instance, acc.filename, e)>>

\* None was written through a descriptor whose encoding is the identity:
\* nothing was called and the owner holds what it held
C3_Witness ==
    /\ last.op = "write"
    /\ acc.t = "descriptor"
    /\ ~Truthy(acc.readonly)
    /\ last.value = PyNone
    /\ sanitize_set(acc, last.value) = {PyNone}
    /\ last.calls = <<>>
    /\ last.result = PyNone

\* one step of the machine, as C10 describes it
FrameStep ==
    LET l == last'
    IN  /\ l.op = "none" => contents' = contents
        /\ l.op = "read" =>
               /\ contents' = contents
               /\ ~Truthy(acc.writeonly) =>
                      l.result =
                          sanitize_get(acc, contents[l.instance][acc.filename])
        /\ l.op = "write" =>
               IF Truthy(acc.readonly) THEN contents' = contents
               ELSE \E e \in sanitize_set(acc, l.value) :
                        IF IsExc(e) \/ e.t = "None" THEN contents' = contents
                        ELSE contents' =
                                 [contents EXCEPT
                                    ![l.instance][acc.filename] = e]

\* C10: every step leaves the owners' contents as they were, except a write
\* that passed the access check and encoded to a value other than None, which
\* replaces the content of the bound filename of the owner it was given, and
\* only that, by the encoded value; every permitted read returns
\* sanitize_get of what the owner holds at that moment.
C10_FrameAndEffect == [][FrameStep]_vars

\* the same descriptor wrote to both owners: each holds the encoded value
\* under the bound filename and its initial content under the other
C10_Witness ==
    /\ last.op = "write"
    /\ acc.t = "descriptor"
    /\ Len(last.calls) = 1
    /\ \A o \in Owners :
         /\ contents[o][acc.filename] # InitialContents[o][acc.filename]
         /\ \A f \in Filenames \ {acc.filename} :
              contents[o][f] = InitialContents[o][f]
    /\ \E o \in Owners :
         contents[o][acc.filename] # contents[last.instance][acc.filename]

---------------------------------------------------------------------------
(* Codec harness: one conversion applied per step to an input drawn in the *)
(* initial state.  The descriptor machine stands still.                     *)

Unset == [t |-> "unset"]

HarnessStart ==
    /\ MachineIdle
    /\ pc = "start"
    /\ enc = Unset
    /\ dec = Unset

machine == <<args, acc, contents, last>>

---------------------------------------------------------------------------
(* IntegerFile *)

MaxInt == 20

IntegerInputs ==
    {PyNone}
    \cup { PyInt(n) : n \in (-MaxInt)..MaxInt }
    \cup { PyStr(IntToStr(n)) : n \in (-MaxInt)..MaxInt }

InitInteger ==
    /\ HarnessStart
    /\ input \in IntegerInputs
    /\ expect = PyNone

IntegerEncode ==
    /\ pc = "start"
    /\ input.t # "str"
    /\ enc' = IntegerFile_sanitize_set(input)
    /\ pc' = "encoded"
    /\ UNCHANGED <<machine, input, expect, dec>>

\* the encoded value is decoded as given, or as the text a file holds of it
IntegerDecode ==
    /\ pc = "encoded"
    /\ ~IsExc(enc)
    /\ \E raw \in {enc, str(enc)} : dec' = IntegerFile_sanitize_get(raw)
    /\ pc' = "decoded"
    /\ UNCHANGED <<machine, input, expect, enc>>

IntegerDecodeText ==
    /\ pc = "start"
    /\ input.t = "str"
    /\ dec' = IntegerFile_sanitize_get(input)
    /\ pc' = "decoded"
    /\ UNCHANGED <<machine, input, expect, enc>>

NextInteger == IntegerEncode \/ IntegerDecode \/ IntegerDecodeText

SpecInteger == InitInteger /\ [][NextInteger]_vars

\* C4 as stated: for every integer n, the sentinel -1 included,
\* IntegerFile's sanitize_get(sanitize_set(n)) is n; sanitize_set(None) is
\* -1 (the text "-1" in the file) and sanitize_get("-1") is None.
C4_RoundTripAll ==
    /\ (pc = "decoded" /\ input.t = "int") => dec = input
    /\ (pc \in {"encoded", "decoded"} /\ input = PyNone) =>
           str(enc) = PyStr(<<"-", "1">>)
    /\ (pc = "decoded" /\ input = PyStr(<<"-", "1">>)) => dec = PyNone

\* C4 (amended): for every integer n other than -1 the round trip gives n;
\* for n = -1 it gives None, -1 being the sentinel; sanitize_set(None) is the
\* integer -1 (the text "-1" in the file), which decodes to None, as does the
\* text "-1".
C4_RoundTripButSentinel ==
    /\ (pc = "decoded" /\ input.t = "int" /\ input.v # -1) => dec = input
    /\ (pc = "decoded" /\ input = PyInt(-1)) => dec = PyNone
    /\ (pc \in {"encoded", "decoded"} /\ input = PyNone) =>
           (enc = PyInt(-1) /\ str(enc) = PyStr(<<"-", "1">>))
    /\ (pc = "decoded" /\ input = PyNone) => dec = PyNone
    /\ (pc = "decoded" /\ input = PyStr(<<"-", "1">>)) => dec = PyNone

\* the integer -1 was encoded and decoded again: None came back
C4_Witness ==
    /\ pc = "decoded"
    /\ input = PyInt(-1)
    /\ enc = PyInt(-1)
    /\ dec = PyNone

---------------------------------------------------------------------------
(* BitFieldFile *)

MaxN == 300
MaxBytes == 3

\* integers whose hex text has up to six digits
BitFieldNumbers ==
    (0..MaxN) \cup {4095, 4096, 65535, 65536, 1048575, 1048576}

\* n halved i times
RECURSIVE Halved(_, _)
Halved(n, i) == IF i = 0 THEN n ELSE Halved(n \div 2, i - 1)

\* the boolean sequence of len elements whose element i is bit i of n
BitsOf(n, len) == [i \in 1..len |-> PyBool(Halved(n, i - 1) % 2 = 1)]

\* the number of hex digits of n
RECURSIVE HexDigitCount(_)
HexDigitCount(n) == IF n < 16 THEN 1 ELSE 1 + HexDigitCount(n \div 16)

InitBitField ==
    /\ HarnessStart
    /\ \E n \in BitFieldNumbers, k \in 0..MaxBytes :
         /\ Halved(n, 8 * k) = 0
         /\ expect = [n |-> n, v |-> BitsOf(n, 8 * k)]
         /\ input = PyStr(IntToStr(n))

BitFieldDecode ==
    /\ pc = "start"
    /\ dec' = BitFieldFile_sanitize_get(input)
    /\ pc' = "decoded"
    /\ UNCHANGED <<machine, input, expect, enc>>

BitFieldEncode ==
    /\ pc = "decoded"
    /\ ~IsExc(dec)
    /\ enc' = BitFieldFile_sanitize_set(dec)
    /\ pc' = "reencoded"
    /\ UNCHANGED <<machine, input, expect, dec>>

NextBitField == BitFieldDecode \/ BitFieldEncode

SpecBitField == InitBitField /\ [][NextBitField]_vars

\* C6 as stated: for every boolean sequence v whose length is a multiple of
\* 8, sanitize_get of the decimal text of the integer whose bit i is v[i]
\* gives v again.
C6_DecodeReproduces ==
    pc \in {"decoded", "reencoded"} => dec = PyList(expect.v)

\* C6 (amended): sanitize_get gives v without its all-false highest bytes,
\* down to one byte: a list of 8 * m elements that agrees with v (and is
\* false beyond v, for the empty v), where every element of v it leaves out
\* is false and where m = 1 or its own highest byte holds a true.  It is v
\* exactly when v has that length.
C6_DecodeTrimsHighBytes ==
    pc \in {"decoded", "reencoded"} =>
        /\ dec.t = "list"
        /\ LET d == dec.v
               v == expect.v
           IN  /\ Len(d) % 8 = 0
               /\ Len(d) >= 8
               /\ \A i \in 1..Len(d) :
                    d[i] = IF i <= Len(v) THEN v[i] ELSE PyBool(FALSE)
               /\ \A i \in (Len(d) + 1)..Len(v) : v[i] = PyBool(FALSE)
               /\ \/ Len(d) = 8
                  \/ \E i \in (Len(d) - 7)..Len(d) : d[i] = PyBool(TRUE)
               /\ (d = v) <=> (Len(v) = Len(d))

\* a 16-element v with a true in its low byte and an all-false high byte
\* was decoded to its low byte alone
C6_Witness ==
    /\ pc = "decoded"
    /\ Len(expect.v) = 16
    /\ \E i \in 1..8 : expect.v[i] = PyBool(TRUE)
    /\ \A i \in 9..16 : expect.v[i] = PyBool(FALSE)
    /\ dec.t = "list"
    /\ Len(dec.v) = 8

\* x rounded up to a multiple of 8
RoundUp8(x) == 8 * ((x + 7) \div 8)

\* C7: for every n >= 0, sanitize_get of the text of n is a list of
\* RoundUp8(4 * hex digits of n) booleans (a positive multiple of 8, enough
\* for every bit of n), element i true iff bit i of n is set, least
\* significant first; sanitize_set of that list is n.
C7_DecodeLengthAndBits ==
    /\ pc \in {"decoded", "reencoded"} =>
           /\ dec.t = "list"
           /\ Len(dec.v) = RoundUp8(4 * HexDigitCount(expect.n))
           /\ Len(dec.v) > 0
           /\ Len(dec.v) % 8 = 0
           /\ Halved(expect.n, Len(dec.v)) = 0
           /\ \A i \in 1..Len(dec.v) :
                dec.v[i] = PyBool(Halved(expect.n, i - 1) % 2 = 1)
    /\ pc = "reencoded" => enc = PyInt(expect.n)

\* 0 was decoded to eight falses and encoded back to 0
C7_Witness ==
    /\ pc = "reencoded"
    /\ expect.n = 0
    /\ dec = PyList([i \in 1..8 |-> PyBool(FALSE)])
    /\ enc = PyInt(0)

---------------------------------------------------------------------------
(* CommaDashSetFile *)

MaxElem == 3
MaxGroups == 2

\* one-digit numbers and two of two digits
Elems == (0..MaxElem) \cup {11, 15}

\* a group of the text, by what it denotes
RangeGroup(a, b) == [kind |-> "range", a |-> a, b |-> b]
SingleGroup(a) == [kind |-> "single", a |-> a, b |-> a]
EmptyGroup == [kind |-> "empty", a |-> 0, b |-> 0]

Groups ==
    {EmptyGroup}
    \cup { SingleGroup(a) : a \in Elems }
    \cup UNION { { RangeGroup(a, b) : b \in { x \in Elems : x >= a } } :
                   a \in Elems }

GroupText(g) ==
    CASE g.kind = "range" -> IntToStr(g.a) \o <<"-">> \o IntToStr(g.b)
      [] g.kind = "single" -> IntToStr(g.a)
      [] g.kind = "empty" -> <<>>

GroupElems(g) == IF g.kind = "empty" THEN {} ELSE g.a .. g.b

RECURSIVE GroupsText(_)
GroupsText(gs) ==
    IF Len(gs) = 1 THEN GroupText(gs[1])
    ELSE GroupText(gs[1]) \o <<",">> \o GroupsText(Tail(gs))

\* whitespace around the text of a file
Pads ==
    { [pre |-> <<>>, post |-> <<>>],
      [pre |-> <<>>, post |-> <<"\n">>],
      [pre |-> <<" ">>, post |-> <<>>] }

\* 1-3,6,11-15
DocExample == <<RangeGroup(1, 3), SingleGroup(6), RangeGroup(11, 15)>>

GroupLists ==
    {DocExample} \cup UNION { [1..k -> Groups] : k \in 1..MaxGroups }

InitCommaDash ==
    /\ HarnessStart
    /\ \/ \E S \in SUBSET Elems :
            /\ input = PySet(S)
            /\ expect = PySet(S)
       \/ \E gs \in GroupLists, pad \in Pads :
            /\ input = PyStr(pad.pre \o GroupsText(gs) \o pad.post)
            /\ expect = PySet(UNION { GroupElems(gs[i]) : i \in DOMAIN gs })

CommaDashEncode ==
    /\ pc = "start"
    /\ input.t = "set"
    /\ \E e \in CommaDashSetFile_sanitize_set(input) : enc' = e
    /\ pc' = "encoded"
    /\ UNCHANGED <<machine, input, expect, dec>>

CommaDashDecode ==
    /\ pc = "encoded"
    /\ ~IsExc(enc)
    /\ dec' = CommaDashSetFile_sanitize_get(enc)
    /\ pc' = "decoded"
    /\ UNCHANGED <<machine, input, expect, enc>>

CommaDashDecodeText ==
    /\ pc = "start"
    /\ input.t = "str"
    /\ dec' = CommaDashSetFile_sanitize_get(input)
    /\ pc' = "decoded"
    /\ UNCHANGED <<machine, input, expect, enc>>

NextCommaDash == CommaDashEncode \/ CommaDashDecode \/ CommaDashDecodeText

SpecCommaDash == InitCommaDash /\ [][NextCommaDash]_vars

\* C5: for every set S of non-negative integers, the empty set and the
\* singletons included, sanitize_get(sanitize_set(S)) is S, in whatever
\* order the set is iterated; the empty set is encoded as one space.
C5_SetRoundTrip ==
    /\ (pc \in {"encoded", "decoded"} /\ input.t = "set") =>
           /\ enc.t = "str"
           /\ (input.v = {}) <=> (enc = PyStr(<<" ">>))
    /\ (pc = "decoded" /\ input.t = "set") => dec = input

\* the empty set went out as one space and came back as the empty set
C5_Witness ==
    /\ pc = "decoded"
    /\ input = PySet({})
    /\ enc = PyStr(<<" ">>)
    /\ dec = PySet({})

---------------------------------------------------------------------------
(* DictFile and DictAndFlagFile *)

MaxLines == 3

\* lines of a file: the text, whether it is "key integer", and which
Line(text, ok, key, val) == [text |-> text, ok |-> ok, key |-> key, val |-> val]

Lines ==
    { Line(<<"a", " ", "1">>, TRUE, <<"a">>, 1),
      Line(<<"a", " ", "2">>, TRUE, <<"a">>, 2),
      Line(<<"b", "\t", " ", "-", "3">>, TRUE, <<"b">>, -3),
      Line(<<" ", "c", "d", " ", "1", "0", " ">>, TRUE, <<"c", "d">>, 10),
      Line(<<>>, FALSE, <<>>, 0),
      Line(<<"a">>, FALSE, <<>>, 0),
      Line(<<"a", " ", "1", " ", "2">>, FALSE, <<>>, 0),
      Line(<<"a", " ", "b">>, FALSE, <<>>, 0) }

RECURSIVE LinesText(_)
LinesText(ls) ==
    IF Len(ls) = 1 THEN ls[1].text
    ELSE ls[1].text \o <<"\n">> \o LinesText(Tail(ls))

\* key -> the integer of the last line with that key
LastWins(ls) ==
    [k \in { ls[i].key : i \in DOMAIN ls } |->
       ls[CHOOSE i \in DOMAIN ls :
              ls[i].key = k /\ \A j \in DOMAIN ls : ls[j].key = k => j <= i].val]

InitDict ==
    /\ HarnessStart
    /\ \E k \in 1..MaxLines, cls \in {"DictFile", "DictAndFlagFile"} :
         \E ls \in [1..k -> Lines] :
           /\ input = PyStr(LinesText(ls))
           /\ expect = [cls |-> cls, lines |-> ls]

DictDecode ==
    /\ pc = "start"
    /\ expect.cls = "DictFile"
    /\ dec' = DictFile_sanitize_get(input)
    /\ pc' = "decoded"
    /\ UNCHANGED <<machine, input, expect, enc>>

DictAndFlagDecode ==
    /\ pc = "start"
    /\ expect.cls = "DictAndFlagFile"
    /\ dec' = DictAndFlagFile_sanitize_get(input)
    /\ pc' = "decoded"
    /\ UNCHANGED <<machine, input, expect, enc>>

NextDict == DictDecode \/ DictAndFlagDecode

SpecDict == InitDict /\ [][NextDict]_vars

\* C9: sanitize_get of DictFile, and of DictAndFlagFile alike, returns the
\* whole key -> integer mapping, the last line of a key winning, exactly
\* when every "\n"-separated line is two whitespace-separated tokens of
\* which the second is an integer; if any line is not (an empty line after
\* a trailing newline, one or three tokens, a non-numeric second token), it
\* raises and returns no mapping.
C9_DecodeAllOrNothing ==
    pc = "decoded" =>
        IF \A i \in DOMAIN expect.lines : expect.lines[i].ok
        THEN dec = PyDict(LastWins(expect.lines))
        ELSE dec = PyExc("ValueError")

\* a good line followed by a trailing newline: the read raised
C9_Witness ==
    /\ pc = "decoded"
    /\ Len(expect.lines) = 2
    /\ expect.lines[1].ok
    /\ expect.lines[2].text = <<>>
    /\ dec = PyExc("ValueError")

====
